---------------------------- MODULE Spec2Model ----------------------------
(***************************************************************************)
(* Pebble (src/App.tsx, src/SplashScreen.tsx): the day-keyed expense       *)
(* ledger of the App component, its day clock, its memoised aggregates     *)
(* and its load-from / persist-to AsyncStorage effects.                    *)
(*                                                                         *)
(* One action is one JavaScript event (a timer callback, a listener, a     *)
(* press handler, the continuation of the load) run to quiescence: the     *)
(* state updates it queues, the re-render(s) they cause (useMemo values    *)
(* recomputed when a dependency changed) and the effects those renders     *)
(* schedule (persist-on-change, ensure-today).                             *)
(*                                                                         *)
(* Of AsyncStorage the ledger key (KEY_BOOK) is modelled; the budget, the  *)
(* quick amounts, the categories and the currency are kept in memory only. *)
(*                                                                         *)
(* Money is counted in hundredths of the currency unit, instants in ticks  *)
(* of local wall-clock time, TicksPerDay ticks to a calendar day.          *)
(***************************************************************************)
EXTENDS Integers, Sequences, FiniteSets, TLC

(* ------------------------------ bounds -------------------------------- *)
\* instants per calendar day
TicksPerDay == 2
\* calendar days the clock can move forward past the day of launch
DaysAhead == 1
\* entries the ledger holds at most (add is disabled beyond)
MaxEntries == 2
\* setItem(KEY_BOOK) calls in flight when a further one is issued, at most
\* (the mount effects issue theirs whatever is in flight)
MaxInflight == 1
\* quick-amount chips the user taps (the first MaxChip of the list)
MaxChip == 1

(* --------------------------- program constants ------------------------- *)
\* hundredths per currency unit: amounts are shown with toFixed(2)
Cent == 100
\* useState<number>(30)
DefaultBudget == 30
\* for (let i = 6; i >= 0; i--): the oldest day of the weekly history
WeekBack == 6

Max(a, b) == IF a > b THEN a ELSE b
Min(a, b) == IF a < b THEN a ELSE b

(* ------------------------------ calendar ------------------------------- *)
\* Day 0 of the model's calendar; the app is launched on day WeekBack + 1,
\* 2023-12-31, so that one day ahead crosses a month and a year boundary.
EpochDate == <<2023, 12, 24>>

IsLeap(y) == (y % 4 = 0 /\ y % 100 # 0) \/ y % 400 = 0

DaysInMonth(y, m) ==
  IF m = 2 THEN (IF IsLeap(y) THEN 28 + 1 ELSE 28)
  ELSE IF m \in {4, 6, 9, 11} THEN 30 ELSE 31

NextDate(dt) ==
  IF dt[3] < DaysInMonth(dt[1], dt[2]) THEN <<dt[1], dt[2], dt[3] + 1>>
  ELSE IF dt[2] < 12 THEN <<dt[1], dt[2] + 1, 1>>
  ELSE <<dt[1] + 1, 1, 1>>

RECURSIVE DateOfDay(_)
DateOfDay(n) == IF n = 0 THEN EpochDate ELSE NextDate(DateOfDay(n - 1))

LaunchDay == WeekBack + 1
MinDay == WeekBack
MaxDay == LaunchDay + DaysAhead
MinNow == MinDay * TicksPerDay
LaunchNow == LaunchDay * TicksPerDay
MaxNow == (MaxDay + 1) * TicksPerDay - 1

Calendar == [n \in 0..MaxDay |-> DateOfDay(n)]

\* new Date(t): the local calendar date (getFullYear, getMonth() + 1, getDate)
DayOf(t) == t \div TicksPerDay
LocalDate(t) == Calendar[DayOf(t)]

\* String(n).padStart(2, '0')
PadStart2(n) == IF n < 10 THEN "0" \o ToString(n) ELSE ToString(n)

\* (a key of the year and the month alone)
dateKeyOfMonth(dt) == ToString(dt[1]) \o "-" \o PadStart2(dt[2])
\* dateKey(d): `${y}-${m}-${day}`
dateKey(dt) == ToString(dt[1]) \o "-" \o PadStart2(dt[2]) \o "-" \o PadStart2(dt[3])

\* d.setDate(v) on the date dt, for v <= getDate(): a day of month below 1
\* rolls back into the previous month(s)
RECURSIVE SetDate(_, _)
SetDate(dt, v) ==
  IF v >= 1 THEN <<dt[1], dt[2], v>>
  ELSE LET py == IF dt[2] = 1 THEN dt[1] - 1 ELSE dt[1]
           pm == IF dt[2] = 1 THEN 12 ELSE dt[2] - 1
       IN SetDate(<<py, pm, 1>>, v + DaysInMonth(py, pm))

(* ------------------------------- ledger -------------------------------- *)
EmptyBook == [k \in {} |-> <<>>]

\* book[key] || []
BucketOf(b, k) == IF k \in DOMAIN b THEN b[k] ELSE <<>>

\* arr.reduce((acc, e) => acc + e.amount, 0)
RECURSIVE SumAmounts(_)
SumAmounts(arr) ==
  IF arr = <<>> THEN 0 ELSE SumAmounts(SubSeq(arr, 1, Len(arr) - 1)) + arr[Len(arr)].amount

\* arr.filter(expense => expense.id !== expenseId)
RECURSIVE FilterOutId(_, _)
FilterOutId(arr, id) ==
  IF arr = <<>> THEN <<>>
  ELSE IF arr[1].id # id THEN <<arr[1]>> \o FilterOutId(Tail(arr), id)
  ELSE FilterOutId(Tail(arr), id)

\* { ...prev, [key]: arr }
WithBucket(b, k, arr) == [x \in DOMAIN b \cup {k} |-> IF x = k THEN arr ELSE b[x]]

RECURSIVE CountEntries(_)
CountEntries(b) ==
  IF DOMAIN b = {} THEN 0
  ELSE LET k == CHOOSE x \in DOMAIN b : TRUE
       IN Len(b[k]) + CountEntries([x \in DOMAIN b \ {k} |-> b[x]])


(* --------------------------- JavaScript values ------------------------- *)
\* A JS number: NaN, or a finite amount in hundredths.
NaN == [nan |-> TRUE, v |-> 0]
Num(n) == [nan |-> FALSE, v |-> n]

DigitChars == {"0", "1", "2", "3", "4", "5", "6", "7", "8", "9"}
DigitVal(c) ==
  CASE c = "0" -> 0 [] c = "1" -> 1 [] c = "2" -> 2 [] c = "3" -> 3 [] c = "4" -> 4
    [] c = "5" -> 5 [] c = "6" -> 6 [] c = "7" -> 7 [] c = "8" -> 8 [] c = "9" -> 9

\* text.replace(',', '.'): the first comma only
RECURSIVE ReplaceComma(_)
ReplaceComma(s) ==
  IF s = <<>> THEN <<>>
  ELSE IF s[1] = "," THEN <<".">> \o Tail(s)
  ELSE <<s[1]>> \o ReplaceComma(Tail(s))

\* the longest prefix of s made of digits
RECURSIVE DigitPrefix(_)
DigitPrefix(s) ==
  IF s = <<>> \/ s[1] \notin DigitChars THEN <<>>
  ELSE <<s[1]>> \o DigitPrefix(Tail(s))

RECURSIVE DigitsValue(_)
DigitsValue(ds) ==
  IF ds = <<>> THEN 0
  ELSE 10 * DigitsValue(SubSeq(ds, 1, Len(ds) - 1)) + DigitVal(ds[Len(ds)])

\* parseFloat(s), for texts with at most two fractional digits: an optional
\* sign, digits, an optional point and digits; whatever follows is ignored;
\* NaN when there is no digit at all.
ParseFloat(s) ==
  LET neg == s # <<>> /\ s[1] = "-"
      body == IF s # <<>> /\ s[1] \in {"-", "+"} THEN Tail(s) ELSE s
      ip == DigitPrefix(body)
      rest == SubSeq(body, Len(ip) + 1, Len(body))
      fp == IF rest # <<>> /\ rest[1] = "." THEN DigitPrefix(Tail(rest)) ELSE <<>>
      f2 == SubSeq(fp \o <<"0", "0">>, 1, 2)
      mag == DigitsValue(ip) * Cent + DigitsValue(f2)
  IN IF ip = <<>> /\ fp = <<>> THEN NaN
     ELSE Num(IF neg THEN 0 - mag ELSE mag)

\* a > n  and  a <= n  on JS numbers: every comparison with NaN is false
JsGt(a, n) == ~a.nan /\ a.v > n
JsLe(a, n) == ~a.nan /\ a.v <= n
\* x || 0
OrZero(a) == IF a.nan THEN 0 ELSE a.v

\* AsyncStorage values: null, or the JSON text of a value
Null == [present |-> FALSE, value |-> EmptyBook]
\* JSON.stringify(book) / JSON.parse(s): a DayBook of plain entries is
\* carried by its JSON text unchanged
JsonStringify(b) == [present |-> TRUE, value |-> b]
JsonParse(s) == s.value

\* Math.random().toString(36).slice(2): the base-36 text "0.<digits>" of the
\* draw, without its first two characters
RandomTexts == {<<"0", ".", "a">>, <<"0", ".", "b">>}
Slice2(s) == SubSeq(s, 3, Len(s))

(* ------------------------------- inputs -------------------------------- *)
\* what the user types into the custom amount field
CustomTexts ==
  { <<"2", "5">>, <<"2", "5", ",", "0">>, <<>>, <<"a", "b", "c">>, <<"0">>, <<"-", "3">> }
\* the calendar days dateKey is probed with, and the instants of those days
ProbeYears == {2023, 2024}
ProbeMonths == {1, 11}
ProbeDates ==
  {dt \in ProbeYears \X ProbeMonths \X (1..31) : dt[3] <= DaysInMonth(dt[1], dt[2])}
ProbeInstants == ProbeDates \X (0..(TicksPerDay - 1))
\* d.getFullYear(), d.getMonth() + 1, d.getDate() of the Date of an instant
DateFields(inst) == inst[1]

\* what the user types into the "Add amount" field of the quick amounts
QuickTexts == { <<"7">>, <<"1">>, <<"5">>, <<"a", "b", "c">>, <<"0">>, <<"-", "3">> }
\* the values removeQuickAmount is called with: the × of a chip passes the
\* chip's value, a second press on a chip that is gone passes a value the
\* list no longer holds
RemoveInputs == {1 * Cent, 2 * Cent, 3 * Cent, 5 * Cent, 7 * Cent, 10 * Cent, 20 * Cent}
\* what the user types into the daily budget field
BudgetTexts == { <<"2", "0">>, <<>> }
\* useState<number[]>([2, 5, 10, 20])
DefaultQuickAmounts == <<2 * Cent, 5 * Cent, 10 * Cent, 20 * Cent>>
\* useState<string>('food'), useState<string>('')
selectedCategory == "food"
expenseNote == ""

NoId == <<"-">>
NoKey == "none"
\* no instants given to dateKey
NoProbe == [a |-> <<>>, b |-> <<>>, keyA |-> "", keyB |-> ""]

\* what AsyncStorage holds under KEY_BOOK at launch: nothing (first launch),
\* or the ledger an earlier session wrote on the day before
PriorEntry ==
  [id |-> <<"a">>, amount |-> 10 * Cent, timestamp |-> MinNow,
   category |-> "food", note |-> ""]
PriorBook == [k \in {dateKey(Calendar[MinDay])} |-> <<PriorEntry>>]
InitialStorage == {Null, JsonStringify(PriorBook)}

AllIds == {Slice2(r) : r \in RandomTexts}
AppStates == {"active", "background"}

(* -------------------------------- state -------------------------------- *)
VARIABLES
  now,          \* the wall clock (local time), in ticks
  todayKey,     \* useState: the tracked day key
  book,         \* useState: the ledger, day key -> list of entries
  dailyBudget,  \* useState: the daily budget
  showSplash,   \* useState: the splash screen is shown instead of the main view
  todayEntries, \* useMemo [book, todayKey]
  todayTotal,   \* useMemo [todayEntries]
  last7Totals,  \* useMemo [book]
  spendingSummary, \* useMemo [book]
  alertKey,     \* the day key the open "Clear today?" prompt closed over, or NoKey
  loadPc,       \* load-on-mount: "unmounted", "reading", "read", "done"
  bookStr,      \* what getItem(KEY_BOOK) returned
  storage,      \* AsyncStorage: the value under KEY_BOOK
  inflight,     \* setItem(KEY_BOOK, ...) calls issued and not yet written
  quickAmounts, \* useState: the one-tap amounts
  probe,        \* two instants and the day keys dateKey gave them (SpecKey)
  last          \* history: the last add, delete, clear or day update the app
                \* performed (see Op), or Other

vars ==
  <<now, todayKey, book, dailyBudget, showSplash, todayEntries, todayTotal,
    last7Totals, spendingSummary, alertKey, loadPc, bookStr, storage, inflight,
    quickAmounts, probe, last>>

\* what the ledger and clock events leave alone
sideVars == <<quickAmounts, probe>>

\* the numbers addAmount is called with: the chips pass quick amounts; the
\* callback itself accepts any number
AddAmountInputs ==
  {Num(quickAmounts[i]) : i \in 1..Min(MaxChip, Len(quickAmounts))}
    \cup {NaN, Num(0), Num(0 - Cent)}

\* The history of an event: its name; the id of the entry it created or
\* was to delete; for a day update the key it resolved, for a clear the key
\* it cleared; whether the amount it was given was a number above 0; for an
\* add the bucket before it, for a day update whether the event before it
\* was a day update that resolved the same key.
Op(name, id, key, valid, prev) ==
  [op |-> name, id |-> id, key |-> key, valid |-> valid, prev |-> prev]
\* the events no property needs to tell apart
Other == Op("other", <<"-">>, "none", TRUE, <<>>)

(* ------------------------------ aggregates ----------------------------- *)
\* useMemo(() => book[todayKey] || [], [book, todayKey])
TodayEntries(b, k) == BucketOf(b, k)
\* (the dependency list written as [book] alone)
TodayEntriesDepsBookOnly(bookChanged, keyChanged) == bookChanged
TodayEntriesDeps(bookChanged, keyChanged) == bookChanged \/ keyChanged

\* useMemo(() => todayEntries.reduce(...), [todayEntries])
TodayTotal(entries) == SumAmounts(entries)

\* (the difference without the clamp)
RemainingUnclamped(budget, total) == budget - total
\* Math.max(0, dailyBudget - todayTotal)
Remaining(budget, total) == Max(0, budget - total)

\* dailyBudget > 0 ? Math.min(1, todayTotal / dailyBudget) : 0, as a fraction
\* <<numerator, denominator>>
MinOne(n, d) == IF n < d THEN <<n, d>> ELSE <<1, 1>>
Progress(budget, total) == IF budget > 0 THEN MinOne(total, budget) ELSE <<0, 1>>

\* last7Totals: for i = 6 .. 0, d = today at 00:00, d.setDate(d.getDate() - i),
\* total of book[dateKey(d)] || []
Last7Entry(b, t, i) ==
  LET d == SetDate(LocalDate(t), LocalDate(t)[3] - i)
  IN [date |-> d, total |-> SumAmounts(BucketOf(b, dateKey(d)))]
Last7Totals(b, t) == [j \in 1..(WeekBack + 1) |-> Last7Entry(b, t, WeekBack + 1 - j)]
Last7Deps(bookChanged, keyChanged) == bookChanged

\* Object.values(book).flat(): the entries of every bucket (the reductions
\* below do not depend on the order of the keys)
RECURSIVE AllEntries(_)
AllEntries(b) ==
  IF DOMAIN b = {} THEN <<>>
  ELSE LET k == CHOOSE x \in DOMAIN b : TRUE
       IN b[k] \o AllEntries([x \in DOMAIN b \ {k} |-> b[x]])

\* (the days counted as the buckets that hold an entry)
TotalDaysWithEntries(b) ==
  LET n == Cardinality({k \in DOMAIN b : b[k] # <<>>}) IN IF n = 0 THEN 1 ELSE n
\* Object.keys(book).length || 1
TotalDays(b) ==
  LET n == Cardinality(DOMAIN b) IN IF n = 0 THEN 1 ELSE n

\* getMonth() (0-based) and getFullYear() of a local date
GetMonth(dt) == dt[2] - 1
GetFullYear(dt) == dt[1]

\* allEntries.filter(entry => same getMonth() and getFullYear() as now)
RECURSIVE ThisMonthEntries(_, _)
ThisMonthEntries(arr, t) ==
  IF arr = <<>> THEN <<>>
  ELSE LET entryDate == LocalDate(arr[1].timestamp)
           keep == /\ GetMonth(entryDate) = GetMonth(LocalDate(t))
                   /\ GetFullYear(entryDate) = GetFullYear(LocalDate(t))
       IN (IF keep THEN <<arr[1]>> ELSE <<>>) \o ThisMonthEntries(Tail(arr), t)

\* spendingSummary, computed at the instant t; averageDaily =
\* totalSpent / totalDays is kept as the fraction <<totalSpent, totalDays>>
SpendingSummary(b, t) ==
  [averageDaily |-> <<SumAmounts(AllEntries(b)), TotalDays(b)>>,
   thisMonthTotal |-> SumAmounts(ThisMonthEntries(AllEntries(b), t)),
   totalSpent |-> SumAmounts(AllEntries(b))]
SummaryDeps(bookChanged, keyChanged) == bookChanged

(* --------------------------- ledger updaters --------------------------- *)
\* ensure-today: prev => prev[todayKey] ? prev : { ...prev, [todayKey]: [] }
EnsureToday(prev, k) == IF k \in DOMAIN prev THEN prev ELSE WithBucket(prev, k, <<>>)

\* (the guard written as amt <= 0, which lets NaN through)
RejectsAmountLoose(amt) == JsLe(amt, 0)
\* addAmount: if (!(amt > 0)) return
RejectsAmount(amt) == ~JsGt(amt, 0)

\* addAmount's updater: arr = copy of prev[todayKey] or [], arr.push(entry)
PushEntry(prev, k, e) == WithBucket(prev, k, Append(BucketOf(prev, k), e))

\* deleteExpense's updater
RemoveExpense(prev, k, id) == WithBucket(prev, k, FilterOutId(BucketOf(prev, k), id))

\* clearToday's onPress updater
ClearBucket(prev, k) == WithBucket(prev, k, <<>>)

\* load-on-mount: if (bookStr != null) setBook(JSON.parse(bookStr))
LoadedBook(prev, str) == IF str.present THEN JsonParse(str) ELSE prev

(* ---------------------------- quick amounts --------------------------- *)
\* Array.from(new Set(arr)): the first occurrence of each value, in order
RECURSIVE Dedupe(_)
Dedupe(arr) ==
  IF arr = <<>> THEN <<>>
  ELSE LET front == Dedupe(SubSeq(arr, 1, Len(arr) - 1))
           x == arr[Len(arr)]
       IN IF \E i \in 1..Len(front) : front[i] = x THEN front ELSE Append(front, x)

\* x put into an ascending list, behind the values that compare <= x
RECURSIVE InsertAsc(_, _)
InsertAsc(x, arr) ==
  IF arr = <<>> THEN <<x>>
  ELSE IF arr[1] - x > 0 THEN <<x>> \o arr
  ELSE <<arr[1]>> \o InsertAsc(x, Tail(arr))

\* arr.sort((a, b) => a - b), on finite numbers
RECURSIVE SortAsc(_)
SortAsc(arr) ==
  IF arr = <<>> THEN <<>>
  ELSE InsertAsc(arr[Len(arr)], SortAsc(SubSeq(arr, 1, Len(arr) - 1)))

\* prev.filter(x => x !== v)
RECURSIVE FilterOutValue(_, _)
FilterOutValue(arr, v) ==
  IF arr = <<>> THEN <<>>
  ELSE IF arr[1] # v THEN <<arr[1]>> \o FilterOutValue(Tail(arr), v)
  ELSE FilterOutValue(Tail(arr), v)

\* (the updater without the sort)
AddQuickUnsorted(prev, v) == Dedupe(Append(prev, v))
\* addQuickAmount's updater: Array.from(new Set([...prev, v])).sort((a, b) => a - b)
AddQuick(prev, v) == SortAsc(Dedupe(Append(prev, v)))
\* removeQuickAmount's updater
RemoveQuick(prev, v) == FilterOutValue(prev, v)

(* ------------------------------- render -------------------------------- *)
\* The state after the event's updates, renders and effects: the ledger b2
\* (a new object when bookChanged) and the tracked key k2.  A memo is
\* recomputed when one of its dependencies changed; the persist effect of
\* [book] issues a setItem when the ledger object changed.
Render(b2, k2, bookChanged) ==
  LET keyChanged == k2 # todayKey
      entriesNew == TodayEntriesDeps(bookChanged, keyChanged)
  IN /\ book' = b2
     /\ todayKey' = k2
     /\ todayEntries' = IF entriesNew THEN TodayEntries(b2, k2) ELSE todayEntries
     /\ todayTotal' = IF entriesNew THEN TodayTotal(TodayEntries(b2, k2)) ELSE todayTotal
     /\ last7Totals' =
          IF Last7Deps(bookChanged, keyChanged) THEN Last7Totals(b2, now) ELSE last7Totals
     /\ spendingSummary' =
          IF SummaryDeps(bookChanged, keyChanged) THEN SpendingSummary(b2, now)
          ELSE spendingSummary

\* useEffect(() => { AsyncStorage.setItem(KEY_BOOK, JSON.stringify(book)); }, [book])
Persist(queue, b2, bookChanged) ==
  IF bookChanged THEN Append(queue, JsonStringify(b2)) ELSE queue

Commit(b2, k2, bookChanged) ==
  /\ Render(b2, k2, bookChanged)
  /\ inflight' = Persist(inflight, b2, bookChanged)

ledgerVars ==
  <<book, todayKey, todayEntries, todayTotal, last7Totals, spendingSummary, inflight>>
CanWrite == Len(inflight) < MaxInflight
Mounted == loadPc # "unmounted"
MainView == Mounted /\ ~showSplash /\ alertKey = NoKey

(* -------------------------------- Init --------------------------------- *)
\* After the first render: the useState initialisers and the memos.
InitApp ==
  /\ now = LaunchNow
  /\ todayKey = dateKey(LocalDate(LaunchNow))
  /\ book = EmptyBook
  /\ dailyBudget = DefaultBudget * Cent
  /\ showSplash = TRUE
  /\ todayEntries = TodayEntries(EmptyBook, dateKey(LocalDate(LaunchNow)))
  /\ todayTotal = TodayTotal(<<>>)
  /\ last7Totals = Last7Totals(EmptyBook, LaunchNow)
  /\ spendingSummary = SpendingSummary(EmptyBook, LaunchNow)
  /\ alertKey = NoKey
  /\ loadPc = "unmounted"
  /\ bookStr = Null
  /\ storage \in InitialStorage
  /\ inflight = <<>>
  /\ quickAmounts = DefaultQuickAmounts
  /\ last = Other

Init == InitApp /\ probe = NoProbe

(* ------------------------------- actions ------------------------------- *)
\* The mount effects, in the order they are declared: the day-clock effect
\* starts the timer and the listener, the load effect issues its getItem
\* calls, the persist effect writes the initial ledger, the ensure-today
\* effect creates today's bucket; the re-render this causes persists again.
Mount ==
  /\ loadPc = "unmounted"
  /\ loadPc' = "reading"
  /\ LET b2 == EnsureToday(book, todayKey)
         changed == todayKey \notin DOMAIN book
     IN /\ Render(b2, todayKey, changed)
        /\ inflight' = Persist(Persist(inflight, book, TRUE), b2, changed)
  /\ last' = Other
  /\ UNCHANGED <<sideVars, now, dailyBudget, showSplash, alertKey, bookStr, storage>>

\* Time passes (the first render and its effects take none).
Tick ==
  /\ Mounted
  /\ now < MaxNow
  /\ now' = now + 1
  /\ UNCHANGED <<sideVars, last, ledgerVars, dailyBudget, showSplash, alertKey, loadPc, bookStr, storage>>

\* The device clock is set back (manual adjustment, time-zone change) to an
\* instant of an earlier calendar day.
ClockSetBack ==
  /\ Mounted
  /\ \E t \in LaunchNow..(now - 1) : DayOf(t) < DayOf(now) /\ now' = t
  /\ UNCHANGED <<sideVars, last, ledgerVars, dailyBudget, showSplash, alertKey, loadPc, bookStr, storage>>

\* what a day update that resolves key k records
UpdateOp(k) ==
  Op("updateDate", NoId, k, TRUE,
     IF last.op = "updateDate" /\ last.key = k THEN <<"again">> ELSE <<>>)

\* updateDate: newTodayKey = dateKey(new Date()); if it differs from the
\* tracked key, setTodayKey; the ensure-today effect of [todayKey] follows.
KeyDiffers(newTodayKey, tracked) == newTodayKey # tracked
\* (an update that stores the key and a fresh ledger object every time)
UpdateDateAlways ==
  LET newTodayKey == dateKey(LocalDate(now))
  IN /\ Commit(WithBucket(book, newTodayKey, BucketOf(book, newTodayKey)), newTodayKey, TRUE)
     /\ last' = UpdateOp(newTodayKey)
UpdateDate ==
  LET newTodayKey == dateKey(LocalDate(now))
  IN /\ IF KeyDiffers(newTodayKey, todayKey)
          THEN Commit(EnsureToday(book, newTodayKey), newTodayKey,
                      newTodayKey \notin DOMAIN book)
          ELSE UNCHANGED ledgerVars
     /\ last' = UpdateOp(newTodayKey)

\* setInterval(updateDate, 60000)
TimerFire ==
  /\ Mounted
  /\ CanWrite
  /\ UpdateDate
  /\ UNCHANGED <<sideVars, now, dailyBudget, showSplash, alertKey, loadPc, bookStr, storage>>

\* handleAppStateChange(nextAppState)
AppStateChange(nextAppState) ==
  /\ Mounted
  /\ CanWrite
  /\ IF nextAppState = "active"
       THEN UpdateDate
       ELSE UNCHANGED ledgerVars /\ last' = Other
  /\ UNCHANGED <<sideVars, now, dailyBudget, showSplash, alertKey, loadPc, bookStr, storage>>

\* AsyncStorage serves getItem(KEY_BOOK), issued at mount before any setItem.
StorageRead ==
  /\ loadPc = "reading"
  /\ bookStr' = storage
  /\ loadPc' = "read"
  /\ UNCHANGED <<sideVars, last, now, ledgerVars, dailyBudget, showSplash, alertKey, storage>>

\* The continuation of await Promise.all([...]).
LoadComplete ==
  /\ loadPc = "read"
  /\ CanWrite
  /\ loadPc' = "done"
  /\ Commit(LoadedBook(book, bookStr), todayKey, bookStr.present)
  /\ last' = Other
  /\ UNCHANGED <<sideVars, now, dailyBudget, showSplash, alertKey, bookStr, storage>>

\* AsyncStorage performs the oldest setItem(KEY_BOOK, ...) in flight.
StorageWrite ==
  /\ loadPc # "reading"
  /\ inflight # <<>>
  /\ storage' = Head(inflight)
  /\ inflight' = Tail(inflight)
  /\ UNCHANGED <<sideVars, last, now, book, todayKey, todayEntries, todayTotal, last7Totals,
                 spendingSummary, dailyBudget, showSplash, alertKey, loadPc, bookStr>>

\* SplashScreen: setTimeout 5000, fade out, onAnimationComplete.
SplashDone ==
  /\ Mounted
  /\ showSplash
  /\ showSplash' = FALSE
  /\ last' = Other
  /\ UNCHANGED <<sideVars, now, ledgerVars, dailyBudget, alertKey, loadPc, bookStr, storage>>

\* addAmount(amt, category, note)
AddAmount(amt, category, note) ==
  IF RejectsAmount(amt)
    THEN /\ UNCHANGED ledgerVars
         /\ last' = Op("add", NoId, NoKey, JsGt(amt, 0), <<>>)
    ELSE /\ CountEntries(book) < MaxEntries
         /\ CanWrite
         /\ \E r \in RandomTexts :
              LET e == [id |-> Slice2(r), amount |-> amt.v, timestamp |-> now,
                        category |-> category, note |-> note]
              IN /\ Commit(PushEntry(book, todayKey, e), todayKey, TRUE)
                 /\ last' = Op("add", e.id, NoKey, JsGt(amt, 0), BucketOf(book, todayKey))

\* a quick-amount chip: onPress={() => addAmount(v)}
CallAddAmount(amt) ==
  /\ MainView
  /\ AddAmount(amt, selectedCategory, "")
  /\ UNCHANGED <<sideVars, now, dailyBudget, showSplash, alertKey, loadPc, bookStr, storage>>

\* the Add Expense button of the custom form
PressRejects(parsed) == parsed.nan \/ JsLe(parsed, 0)
AddExpensePress(customAmount) ==
  /\ MainView
  /\ LET parsed == ParseFloat(ReplaceComma(customAmount))
     IN IF PressRejects(parsed)
          THEN /\ UNCHANGED ledgerVars
               /\ last' = Op("add", NoId, NoKey, JsGt(parsed, 0), <<>>)
          ELSE AddAmount(parsed, selectedCategory, expenseNote)
  /\ UNCHANGED <<sideVars, now, dailyBudget, showSplash, alertKey, loadPc, bookStr, storage>>

\* deleteExpense(expenseId)
DeleteExpense(expenseId) ==
  /\ MainView
  /\ CanWrite
  /\ Commit(RemoveExpense(book, todayKey, expenseId), todayKey, TRUE)
  /\ last' = Op("deleteExpense", expenseId, NoKey, TRUE, <<>>)
  /\ UNCHANGED <<sideVars, now, dailyBudget, showSplash, alertKey, loadPc, bookStr, storage>>

\* clearToday: Alert.alert('Clear today?', ...) with the two buttons closing
\* over the tracked key of this render
ClearTodayPress ==
  /\ MainView
  /\ alertKey' = todayKey
  /\ last' = Other
  /\ UNCHANGED <<sideVars, now, ledgerVars, dailyBudget, showSplash, loadPc, bookStr, storage>>

\* { text: 'Cancel', style: 'cancel' }
AlertCancel ==
  /\ alertKey # NoKey
  /\ alertKey' = NoKey
  /\ last' = Other
  /\ UNCHANGED <<sideVars, now, ledgerVars, dailyBudget, showSplash, loadPc, bookStr, storage>>

\* { text: 'Clear', onPress: () => setBook(prev => ({ ...prev, [todayKey]: [] })) }
AlertClear ==
  /\ alertKey # NoKey
  /\ CanWrite
  /\ alertKey' = NoKey
  /\ Commit(ClearBucket(book, alertKey), todayKey, TRUE)
  /\ last' = Op("alertClear", NoId, alertKey, TRUE, <<>>)
  /\ UNCHANGED <<sideVars, now, dailyBudget, showSplash, loadPc, bookStr, storage>>

\* Settings: onChangeText={(t) => setDailyBudget(parseFloat(t.replace(',', '.')) || 0)}
SetDailyBudget(t) ==
  /\ MainView
  /\ dailyBudget' = OrZero(ParseFloat(ReplaceComma(t)))
  /\ last' = Other
  /\ UNCHANGED <<sideVars, now, ledgerVars, showSplash, alertKey, loadPc, bookStr, storage>>

\* Settings, "Add amount": onSubmitEditing parses the text and calls
\* addQuickAmount(v) if (v > 0)
SubmitQuickAmount(text) ==
  /\ MainView
  /\ LET v == ParseFloat(ReplaceComma(text))
     IN /\ quickAmounts' = IF JsGt(v, 0) THEN AddQuick(quickAmounts, v.v) ELSE quickAmounts
        /\ last' = Op("addQuickAmount", NoId, NoKey, JsGt(v, 0), quickAmounts)
  /\ UNCHANGED <<probe, now, ledgerVars, dailyBudget, showSplash, alertKey, loadPc,
                 bookStr, storage>>

\* Settings, the × of a quick amount: removeQuickAmount(v)
RemoveQuickAmount(v) ==
  /\ MainView
  /\ quickAmounts' = RemoveQuick(quickAmounts, v)
  /\ last' = Op("removeQuickAmount", NoId, NoKey, TRUE, quickAmounts)
  /\ UNCHANGED <<probe, now, ledgerVars, dailyBudget, showSplash, alertKey, loadPc,
                 bookStr, storage>>

Next ==
  \/ Mount
  \/ Tick
  \/ TimerFire
  \/ \E s \in AppStates : AppStateChange(s)
  \/ StorageRead
  \/ LoadComplete
  \/ StorageWrite
  \/ SplashDone
  \/ \E amt \in AddAmountInputs : CallAddAmount(amt)
  \/ \E t \in CustomTexts : AddExpensePress(t)
  \/ \E id \in AllIds : DeleteExpense(id)
  \/ ClearTodayPress
  \/ AlertCancel
  \/ AlertClear
  \/ \E t \in BudgetTexts : SetDailyBudget(t)

\* The app on a device whose clock only moves forward.
Spec == Init /\ [][Next]_vars

\* The same, with the scheduling the platform gives: the interval timer keeps
\* firing, and AsyncStorage completes the reads and writes it was given.
SpecLive ==
  /\ Init
  /\ [][Next]_vars
  /\ SF_vars(TimerFire)
  /\ WF_vars(StorageRead)
  /\ WF_vars(StorageWrite)

\* The app on a device whose clock is also set back, driven by the chips,
\* the delete buttons and Clear Today.
NextSkew ==
  \/ Mount
  \/ Tick
  \/ ClockSetBack
  \/ TimerFire
  \/ \E s \in AppStates : AppStateChange(s)
  \/ StorageRead
  \/ LoadComplete
  \/ StorageWrite
  \/ SplashDone
  \/ \E amt \in AddAmountInputs : CallAddAmount(amt)
  \/ \E id \in AllIds : DeleteExpense(id)
  \/ ClearTodayPress
  \/ AlertCancel
  \/ AlertClear

SpecSkew == Init /\ [][NextSkew]_vars

\* The app driven by the quick-amount settings alone.
NextQuick ==
  \/ Mount
  \/ SplashDone
  \/ \E text \in QuickTexts : SubmitQuickAmount(text)
  \/ \E v \in RemoveInputs : RemoveQuickAmount(v)

SpecQuick == Init /\ [][NextQuick]_vars

\* dateKey on its own: two instants are drawn, dateKey is applied to both.
InitKey ==
  /\ InitApp
  /\ storage = Null
  /\ probe \in [a : ProbeInstants, b : ProbeInstants, keyA : {""}, keyB : {""}]

DateKeyProbe ==
  /\ probe.a # <<>>
  /\ probe.keyA = ""
  /\ probe' = [probe EXCEPT !.keyA = dateKey(DateFields(probe.a)),
                            !.keyB = dateKey(DateFields(probe.b))]
  /\ UNCHANGED <<quickAmounts, last, now, ledgerVars, dailyBudget, showSplash, alertKey,
                 loadPc, bookStr, storage>>

NextKey == DateKeyProbe

SpecKey == InitKey /\ [][NextKey]_vars

(* ------------------------------ properties ----------------------------- *)
\* the sum of the amounts of a list of entries
RECURSIVE AmountSum(_)
AmountSum(arr) == IF arr = <<>> THEN 0 ELSE Head(arr).amount + AmountSum(Tail(arr))

HasId(arr, id) == \E i \in 1..Len(arr) : arr[i].id = id
Holds(arr, e) == \E i \in 1..Len(arr) : arr[i] = e
\* the day key the wall clock stands on
ClockKey == dateKey(Calendar[DayOf(now)])
\* the step is updateDate, run by the timer or by the listener
UpdateStep == TimerFire \/ AppStateChange("active")

\* C1: after any sequence of add, delete, clear-day and day-key updates, the
\* today total is the sum of the amounts of the entries in the ledger bucket
\* of the tracked day key, and 0 when the ledger has no bucket for that key.
C1_TodayTotalIsBucketSum ==
  todayTotal = IF todayKey \in DOMAIN book THEN AmountSum(book[todayKey]) ELSE 0

\* a delete has left one entry in the bucket of the tracked day, which is
\* not the day of launch, and the total is that entry's amount
C1_Witness ==
  /\ last.op = "deleteExpense"
  /\ todayKey # dateKey(Calendar[LaunchDay])
  /\ todayKey \in DOMAIN book
  /\ Len(book[todayKey]) = 1
  /\ todayTotal = book[todayKey][1].amount
  /\ todayTotal > 0

\* C2: adding an entry to the tracked day's bucket and then deleting the
\* entry with the id the add created restores the bucket to the entries it
\* held before the add, in the same order.
C2_AddThenDeleteRestores ==
  [][(last.op = "add" /\ last.id # NoId /\ DeleteExpense(last.id))
     => BucketOf(book', todayKey) = last.prev]_vars

\* C3: for a budget >= 0 and a today total >= 0, remaining is in
\* [0, budget] and the progress ratio is in [0, 1]; budget 20 with one entry
\* of 25 gives remaining 0 and progress ratio 1.
C3_RemainingAndProgressInRange ==
  (dailyBudget >= 0 /\ todayTotal >= 0) =>
    LET r == Remaining(dailyBudget, todayTotal)
        p == Progress(dailyBudget, todayTotal)
    IN /\ 0 <= r /\ r <= dailyBudget
       /\ p[2] > 0 /\ 0 <= p[1] /\ p[1] <= p[2]
       /\ (dailyBudget = 20 * Cent /\ todayTotal = 25 * Cent) => (r = 0 /\ p[1] = p[2])

\* budget 20, one entry of 25 today
C3_Witness ==
  /\ dailyBudget = 20 * Cent
  /\ Len(todayEntries) = 1
  /\ todayTotal = 25 * Cent
  /\ todayKey \in DOMAIN book
  /\ book[todayKey] = todayEntries

\* last7Totals is the week of the seven days ending with day d
C4_WeekEndsOn(d) ==
  /\ Len(last7Totals) = 7
  /\ \A j \in 1..7 :
       /\ d - 7 + j \in 0..MaxDay
       /\ last7Totals[j].date = Calendar[d - 7 + j]
       /\ last7Totals[j].total =
            (IF dateKey(Calendar[d - 7 + j]) \in DOMAIN book
               THEN AmountSum(book[dateKey(Calendar[d - 7 + j])]) ELSE 0)

\* C4: in every reachable state the weekly totals are 7 entries, for the 7
\* consecutive calendar days ending with today, oldest first, each with the
\* sum of the amounts in that day's ledger bucket (0 without a bucket).
\* Today is read as the wall clock's calendar day or as the tracked day,
\* whichever fits.
C4_WeeklyTotalsEndToday ==
  \/ C4_WeekEndsOn(DayOf(now))
  \/ \E d \in 0..MaxDay : dateKey(Calendar[d]) = todayKey /\ C4_WeekEndsOn(d)

\* C5: the day update applied twice in a row with the same resolved key, by
\* the timer, by the listener, or by one after the other: the second changes
\* neither the tracked key nor the ledger, creates no bucket and issues no
\* persistence write.
C5_SecondUpdateIsNoOp ==
  [][(last.op = "updateDate" /\ last.key = ClockKey /\ UpdateStep)
     => /\ todayKey' = todayKey
        /\ book' = book
        /\ inflight' = inflight
        /\ storage' = storage]_vars

\* updateDate has run twice in a row with the key of a day after the launch
C5_Witness ==
  /\ last.op = "updateDate"
  /\ last.prev = <<"again">>
  /\ last.key # dateKey(Calendar[LaunchDay])
  /\ todayKey = last.key

\* C6: an add request whose amount is not greater than 0 (zero, negative,
\* not a number) creates no entry and leaves the ledger and every aggregate
\* derived from it as they were.
C6_InvalidAmountIsNoOp ==
  [][(\/ \E amt \in AddAmountInputs : ~(~amt.nan /\ amt.v > 0) /\ CallAddAmount(amt)
      \/ \E t \in CustomTexts :
           LET p == ParseFloat(ReplaceComma(t))
           IN ~(~p.nan /\ p.v > 0) /\ AddExpensePress(t))
     => /\ book' = book
        /\ todayEntries' = todayEntries
        /\ todayTotal' = todayTotal
        /\ last7Totals' = last7Totals
        /\ inflight' = inflight]_vars

\* an add was given an amount that is not above 0, on a day with an entry
C6_Witness ==
  /\ last.op = "add"
  /\ ~last.valid
  /\ Len(BucketOf(book, todayKey)) > 0

\* C7: deleting an id that is not in the tracked day's bucket leaves the
\* ledger with the same day keys and the same bucket contents.
C7_DeleteAbsentIsNoOp ==
  [][(\E id \in AllIds : ~HasId(BucketOf(book, todayKey), id) /\ DeleteExpense(id))
     => (DOMAIN book' = DOMAIN book /\ \A k \in DOMAIN book : book'[k] = book[k])]_vars

\* C8: an entry in the ledger stays in its bucket unless a delete with its id
\* or a confirmed clear of its day key happens: rollover, bucket
\* initialisation, the end of the load and settings changes remove none.
C8_EntriesOnlyLeaveByDeleteOrClear ==
  [][\A k \in DOMAIN book : \A i \in 1..Len(book[k]) :
       \/ Holds(BucketOf(book', k), book[k][i])
       \/ (k = todayKey /\ DeleteExpense(book[k][i].id))
       \/ (k = alertKey /\ AlertClear)]_vars

\* C9: a day key of the ledger maps to a list, and a day key once in the
\* ledger is in it in every later state.
C9_DayKeysNeverLeave ==
  [][/\ DOMAIN book \subseteq DOMAIN book'
     /\ \A k \in DOMAIN book' : DOMAIN book'[k] = 1..Len(book'[k])]_vars

\* C10: every entry's timestamp falls on the calendar day its bucket key
\* stands for.
C10_TimestampInBucketDay ==
  \A k \in DOMAIN book : \A i \in 1..Len(book[k]) :
    dateKey(LocalDate(book[k][i].timestamp)) = k

\* C11: the running daily average is the sum of all entry amounts of the
\* ledger divided by max(1, number of day keys in the ledger): a key whose
\* bucket is empty counts (day totals 10 and 0 give 5), and an empty ledger
\* gives 0.
C11_AverageOverTouchedDays ==
  LET avg == spendingSummary.averageDaily
      keys == Cardinality(DOMAIN book)
      n == IF keys > 1 THEN keys ELSE 1
      sum == AmountSum(AllEntries(book))
  IN /\ avg[2] > 0
     /\ avg[1] * n = sum * avg[2]
     /\ (DOMAIN book = {}) => avg[1] = 0
     /\ (keys = 2 /\ sum = 10 * Cent) => avg[1] * 1 = 5 * Cent * avg[2]

\* two day keys with totals 10 and 0, the average shown is 5
C11_Witness ==
  /\ Cardinality(DOMAIN book) = 2
  /\ \E k \in DOMAIN book : book[k] = <<>>
  /\ \E k \in DOMAIN book : AmountSum(book[k]) = 10 * Cent
  /\ spendingSummary.averageDaily[1] * 1 = 5 * Cent * spendingSummary.averageDaily[2]

\* C12: the main view is not shown before the reads of the load-on-start
\* have completed and their values have been applied to the state.
C12_MainViewOnlyAfterLoad == (Mounted /\ ~showSplash) => loadPc = "done"

\* the list is ascending and holds no value twice
QuickSortedNoDup(arr) == \A i, j \in 1..Len(arr) : i < j => arr[i] < arr[j]
HasValue(arr, v) == \E i \in 1..Len(arr) : arr[i] = v

\* C13: from the default quick amounts on, after any sequence of
\* addQuickAmount and removeQuickAmount calls the list is sorted ascending
\* without duplicates; adding a value the list holds and removing a value it
\* does not hold leave the list as it was.
C13_QuickAmountsSortedUnique ==
  /\ QuickSortedNoDup(quickAmounts)
  /\ [][/\ QuickSortedNoDup(quickAmounts')
        /\ (\E text \in QuickTexts :
              LET v == ParseFloat(ReplaceComma(text))
              IN JsGt(v, 0) /\ HasValue(quickAmounts, v.v) /\ SubmitQuickAmount(text))
             => quickAmounts' = quickAmounts
        /\ (\E v \in RemoveInputs : ~HasValue(quickAmounts, v) /\ RemoveQuickAmount(v))
             => quickAmounts' = quickAmounts]_vars

\* a value the list already held was added again, to a list that an earlier
\* add and an earlier remove have changed
C13_Witness ==
  /\ last.op = "addQuickAmount"
  /\ last.valid
  /\ last.prev = quickAmounts
  /\ HasValue(quickAmounts, 1 * Cent)
  /\ HasValue(quickAmounts, 7 * Cent)
  /\ ~HasValue(quickAmounts, 10 * Cent)

\* C14: a clear-day request changes the ledger only once the user confirms
\* the prompt; on confirmation the bucket of the current day key becomes the
\* empty list, the key staying in the ledger, and every other day's bucket
\* is unchanged; on cancel the ledger is unchanged.
C14_ClearOnlyOnConfirm ==
  [][/\ (ClearTodayPress \/ AlertCancel) => book' = book
     /\ AlertClear =>
          /\ todayKey \in DOMAIN book'
          /\ book'[todayKey] = <<>>
          /\ \A k \in DOMAIN book \ {todayKey} : k \in DOMAIN book' /\ book'[k] = book[k]]_vars

\* C15: dateKey gives every instant a key; two instants of the same local
\* calendar day get the same key, two instants of different calendar days
\* get different keys.
C15_DateKeyOnePerDay ==
  (probe.keyA # "") =>
    /\ probe.keyB # ""
    /\ (DateFields(probe.a) = DateFields(probe.b)) <=> (probe.keyA = probe.keyB)

\* the 11th of January and the 1st of November have got their keys
C15_Witness ==
  /\ probe.a # <<>>
  /\ DateFields(probe.a) = <<2024, 1, 11>>
  /\ DateFields(probe.b) = <<2024, 11, 1>>
  /\ probe.keyA = "2024-01-11"
  /\ probe.keyB = "2024-11-01"

\* the sum of the amounts of the entries of arr stamped in month m of year y
RECURSIVE MonthSum(_, _, _)
MonthSum(arr, y, m) ==
  IF arr = <<>> THEN 0
  ELSE LET dt == Calendar[DayOf(Head(arr).timestamp)]
       IN (IF dt[1] = y /\ dt[2] = m THEN Head(arr).amount ELSE 0)
            + MonthSum(Tail(arr), y, m)

\* C16: at any time the monthly total shown is the sum of the amounts of the
\* entries, of all buckets, whose timestamp lies in the calendar month and
\* year of the current instant, also after the clock has crossed a month
\* boundary.
C16_MonthlyTotalIsCurrent ==
  spendingSummary.thisMonthTotal =
    MonthSum(AllEntries(book), Calendar[DayOf(now)][1], Calendar[DayOf(now)][2])

\* the entries of the ledger have pairwise distinct ids
DistinctIds(b) ==
  \A i, j \in 1..Len(AllEntries(b)) :
    i # j => AllEntries(b)[i].id # AllEntries(b)[j].id

\* C17: every add creates an entry with a fresh id: the entries of the
\* ledger have pairwise distinct ids in every reachable state, and a delete
\* by id removes at most one entry.
C17_IdsPairwiseDistinct ==
  [][/\ DistinctIds(book')
     /\ (\E id \in AllIds : DeleteExpense(id))
          => Len(AllEntries(book')) >= Len(AllEntries(book)) - 1]_vars

\* once the calendar day of the clock differs from the tracked day, the
\* tracked key comes to be the key of the clock's day
DayChangeIsTracked == (Mounted /\ todayKey # ClockKey) ~> (todayKey = ClockKey)
\* a change of the tracked key leaves the ledger with a bucket for the new
\* key and with the buckets it had, unchanged
KeyChangeKeepsBuckets ==
  [][(todayKey' # todayKey) =>
       /\ todayKey' \in DOMAIN book'
       /\ \A k \in DOMAIN book : k \in DOMAIN book' /\ book'[k] = book[k]]_vars
\* a key that enters the ledger with an empty bucket is the new tracked key
\* of a step that changed the tracked key (or the key tracked at mount)
InitOnlyByKeyChange ==
  [][\A k \in DOMAIN book' \ DOMAIN book :
       (book'[k] = <<>>) => \/ (todayKey' # todayKey /\ k = todayKey')
                            \/ Mount]_vars

\* C18: when the calendar day of the clock changes while the app runs, then
\* with the timer firing fairly the tracked key eventually is the key of the
\* new day; the change leaves the ledger with a bucket for the new key and
\* all buckets it had unchanged; and a bucket is initialised only by such a
\* change of the tracked key.
C18_DayChangeTrackedAndSoleInit ==
  /\ DayChangeIsTracked
  /\ KeyChangeKeepsBuckets
  /\ InitOnlyByKeyChange

\* C19: at startup, however the reads of the load, the persist writes and
\* the bucket initialisation interleave, the ledger in storage keeps every
\* entry it held before the launch (the user deletes and clears none of
\* them here: they are of an earlier day).  After the read, bookStr is what
\* storage held before the launch; before it, storage is untouched.
C19_StoredEntriesSurviveStartup ==
  (loadPc \in {"read", "done"} /\ bookStr.present) =>
    /\ storage.present
    /\ \A k \in DOMAIN bookStr.value :
         /\ k \in DOMAIN storage.value
         /\ \A i \in 1..Len(bookStr.value[k]) :
              Holds(storage.value[k], bookStr.value[k][i])

=============================================================================
